---------------------------- MODULE Spec2Model ----------------------------
(* A model of logger.go (package logger): the CommonLogger and             *)
(* CombinedLogger middlewares, the formatter buildCommonLogLine and the    *)
(* escaping primitive appendQuoted.                                        *)
(*                                                                         *)
(* A Go string or []byte is a sequence of byte values 0..255.              *)
EXTENDS Integers, Sequences, FiniteSets, TLC

VARIABLES
    qin,      \* appendQuoted: the argument s as passed by the caller
    qpos,     \* appendQuoted: bytes of qin already sliced off (s = qin[qpos:])
    qbuf,     \* appendQuoted: buf as appended so far
    qunits,   \* history: one record per loop iteration, in order
    qpc,      \* appendQuoted: "loop" | "returned" | "off"
    lreq,     \* formatter: the request req
    largs,    \* formatter: ts, status, size, delay
    luri,     \* buildCommonLogLine: the local uri of the last call
    lcommon,  \* bytes writeCommonLog handed to w.Write (<<>>: not called)
    lcombined, \* bytes writeCombinedLog handed to w.Write (<<>>: not called)
    pc,       \* wrapper: per request, where its goroutine stands
    reqs,     \* wrapper: r, the request
    variant,  \* wrapper: "common" (CommonLogger) or "combined" (CombinedLogger)
    t1,       \* wrapper: the local t1
    t2,       \* wrapper: the local t2
    w2,       \* wrapper: the wrapped response writer's code and byte count
    obs,      \* history: w2 and the clock when the downstream handler returned
    ctxDone,  \* the request's context is cancelled
    bufs,     \* write*Log: the local buf, per buffer
    clock,    \* time.Now(), in nanoseconds
    started,  \* history: the requests in the order they entered, with the time
    sinkCalls, \* out: the Write calls made, in order
    sinkData  \* out: the bytes the sink accepted, in order

qvars == <<qin, qpos, qbuf, qunits, qpc>>

lvars == <<lreq, largs, luri, lcommon, lcombined>>

wvars == <<pc, reqs, variant, t1, t2, w2, obs, ctxDone, bufs, clock, started,
           sinkCalls, sinkData>>

vars == <<qin, qpos, qbuf, qunits, qpc, lreq, largs, luri, lcommon, lcombined,
          pc, reqs, variant, t1, t2, w2, obs, ctxDone, bufs, clock, started,
          sinkCalls, sinkData>>

-----------------------------------------------------------------------------
(* Bounds of the model.                                                    *)

\* appendQuoted inputs are concatenations of at most MaxChunks chunks.
MaxChunks == 3

\* Requests in flight at once through wrappers that share one sink.
NumReq == 2

\* The clock advances at most MaxTicks times.
MaxTicks == 2

\* The downstream handler writes at most MaxBody bytes of body.
MaxBody == 13

-----------------------------------------------------------------------------
(* Byte strings.                                                           *)

RECURSIVE Concat(_)
Concat(ss) == IF ss = <<>> THEN <<>> ELSE Head(ss) \o Concat(Tail(ss))

Drop(s, n) == SubSeq(s, n + 1, Len(s))

Take(s, n) == SubSeq(s, 1, n)

Count(s, B) == Cardinality({i \in 1..Len(s) : s[i] \in B})

IndexOf(s, b) ==
    IF \E i \in 1..Len(s) : s[i] = b
    THEN CHOOSE i \in 1..Len(s) : s[i] = b /\ \A j \in 1..(i - 1) : s[j] # b
    ELSE 0

LastIndexOf(s, b) ==
    IF \E i \in 1..Len(s) : s[i] = b
    THEN CHOOSE i \in 1..Len(s) : s[i] = b /\ \A j \in (i + 1)..Len(s) : s[j] # b
    ELSE 0

\* Byte values the code names.
QUOTE == 34      \* '"'
BSLASH == 92     \* '\\'
NL == 10         \* '\n'
SP == 32         \* ' '

-----------------------------------------------------------------------------
(* unicode/utf8 and strconv, as appendQuoted uses them.                    *)

RuneSelf == 128
RuneError == 65533
MaxRune == 1114111

IsCont(b) == b >= 128 /\ b <= 191

\* utf8.DecodeRuneInString(s) for a non-empty s: [r |-> rune, width |-> bytes].
\* An invalid or truncated encoding decodes to (RuneError, 1).
DecodeRuneInString(s) ==
    LET n  == Len(s)
        b0 == s[1]
        bad == [r |-> RuneError, width |-> 1]
    IN  IF b0 < 128 THEN [r |-> b0, width |-> 1]
        ELSE IF b0 >= 194 /\ b0 <= 223 THEN
            IF n >= 2 /\ IsCont(s[2])
            THEN [r |-> (b0 - 192) * 64 + (s[2] - 128), width |-> 2]
            ELSE bad
        ELSE IF b0 >= 224 /\ b0 <= 239 THEN
            LET lo == IF b0 = 224 THEN 160 ELSE 128
                hi == IF b0 = 237 THEN 159 ELSE 191
            IN  IF n >= 3 /\ s[2] >= lo /\ s[2] <= hi /\ IsCont(s[3])
                THEN [r |-> (b0 - 224) * 4096 + (s[2] - 128) * 64 + (s[3] - 128),
                      width |-> 3]
                ELSE bad
        ELSE IF b0 >= 240 /\ b0 <= 244 THEN
            LET lo == IF b0 = 240 THEN 144 ELSE 128
                hi == IF b0 = 244 THEN 143 ELSE 191
            IN  IF n >= 4 /\ s[2] >= lo /\ s[2] <= hi /\ IsCont(s[3]) /\ IsCont(s[4])
                THEN [r |-> (b0 - 240) * 262144 + (s[2] - 128) * 4096
                            + (s[3] - 128) * 64 + (s[4] - 128),
                      width |-> 4]
                ELSE bad
        ELSE bad

\* utf8.EncodeRune(runeTmp[:], r): the bytes written.
EncodeRune(r) ==
    IF r < 128 THEN <<r>>
    ELSE IF r < 2048 THEN <<192 + (r \div 64), 128 + (r % 64)>>
    ELSE IF r > MaxRune \/ (r >= 55296 /\ r <= 57343) THEN <<239, 191, 189>>
    ELSE IF r < 65536 THEN
        <<224 + (r \div 4096), 128 + ((r \div 64) % 64), 128 + (r % 64)>>
    ELSE <<240 + (r \div 262144), 128 + ((r \div 4096) % 64),
           128 + ((r \div 64) % 64), 128 + (r % 64)>>

\* strconv.IsPrint(r): letters, marks, numbers, punctuation, symbols and the
\* ASCII space.  Exact below U+0100; above it the table lists the
\* non-printable ranges around the runes the bounded inputs decode to
\* (U+2000..U+200F, U+2028..U+202F, U+205F..U+206F, the surrogates, the
\* tag block U+E0000..U+E007F).
IsPrint(r) ==
    IF r < 128 THEN r >= 32 /\ r <= 126
    ELSE IF r < 256 THEN r >= 161 /\ r # 173
    ELSE ~ \/ (r >= 8192 /\ r <= 8207)
           \/ (r >= 8232 /\ r <= 8239)
           \/ (r >= 8287 /\ r <= 8303)
           \/ (r >= 55296 /\ r <= 57343)
           \/ (r >= 917504 /\ r <= 917631)

-----------------------------------------------------------------------------
(* appendQuoted.                                                           *)

\* lowerhex[n] for n in 0..15: the byte of "0123456789abcdef" at index n.
lowerhex(n) == IF n < 10 THEN 48 + n ELSE 87 + n

\* The loop of lines 110-112 and 115-117: digits hex digits of r, high first.
RECURSIVE HexDigits(_, _)
HexDigits(r, digits) ==
    IF digits = 0 THEN <<>>
    ELSE HexDigits(r \div 16, digits - 1) \o <<lowerhex(r % 16)>>

\* `\x` followed by the two hex digits of byte b (lines 69-71, 102-104).
HexByte(b) == <<BSLASH, 120, lowerhex(b \div 16), lowerhex(b % 16)>>

\* The switch of lines 84-119, for a rune that is neither quoted nor printable.
EscapeRune(r, b0) ==
    CASE r = 7  -> <<BSLASH, 97>>
      [] r = 8  -> <<BSLASH, 98>>
      [] r = 12 -> <<BSLASH, 102>>
      [] r = 10 -> <<BSLASH, 110>>
      [] r = 13 -> <<BSLASH, 114>>
      [] r = 9  -> <<BSLASH, 116>>
      [] r = 11 -> <<BSLASH, 118>>
      [] OTHER ->
            IF r < 32 THEN HexByte(b0)
            ELSE IF r > MaxRune THEN <<BSLASH, 117>> \o HexDigits(RuneError, 4)
            ELSE IF r < 65536 THEN <<BSLASH, 117>> \o HexDigits(r, 4)
            ELSE <<BSLASH, 85>> \o HexDigits(r, 8)

\* The rune and width the loop head computes for a non-empty s (lines 63-67).
LoopDecode(s) ==
    IF s[1] >= RuneSelf THEN DecodeRuneInString(s) ELSE [r |-> s[1], width |-> 1]

\* Faulty variant: the malformed-byte test forgets the width (r == utf8.RuneError).
IsMalformed_NoWidth(d) == d.r = RuneError

\* The test of line 68.
IsMalformed(d) == d.width = 1 /\ d.r = RuneError

\* Faulty variant: double quotes are not backslashed.
IsBackslashed_QuoteOnlyBackslash(r) == r = BSLASH

\* The test of line 74.
IsBackslashed(r) == r = QUOTE \/ r = BSLASH

\* One iteration of the loop on a non-empty s: the bytes appended to buf and
\* the width by which s is sliced (s = s[width:]).
appendQuotedIter(s) ==
    LET d == LoopDecode(s)
    IN  IF IsMalformed(d) THEN [out |-> HexByte(s[1]), width |-> d.width]
        ELSE IF IsBackslashed(d.r) THEN [out |-> <<BSLASH, d.r % 256>>, width |-> d.width]
        ELSE IF IsPrint(d.r) THEN [out |-> EncodeRune(d.r), width |-> d.width]
        ELSE [out |-> EscapeRune(d.r, s[1]), width |-> d.width]

\* appendQuoted(buf, s): the loop run to its end.
RECURSIVE appendQuoted(_, _)
appendQuoted(buf, s) ==
    IF Len(s) = 0 THEN buf
    ELSE LET it == appendQuotedIter(s)
         IN  appendQuoted(buf \o it.out, Drop(s, it.width))

-----------------------------------------------------------------------------
(* Strings of the requests the model draws.                                *)

S_GET == <<71, 69, 84>>                           \* GET
S_CONNECT == <<67, 79, 78, 78, 69, 67, 84>>       \* CONNECT
S_HTTP11 == <<72, 84, 84, 80, 47, 49, 46, 49>>    \* HTTP/1.1
S_HTTP20 == <<72, 84, 84, 80, 47, 50, 46, 48>>    \* HTTP/2.0
S_MonthYear == <<47, 74, 97, 110, 47, 50, 48, 49, 55, 58>>   \* /Jan/2017:
S_Zone == <<32, 43, 48, 49, 48, 48>>              \* space +0100
Addr_V6 == <<91, 58, 58, 49, 93, 58, 53, 52, 51, 50, 49>>    \* [::1]:54321
Addr_V4 == <<49, 48, 46, 48, 46, 48, 46, 49, 58, 56, 48>>    \* 10.0.0.1:80
Addr_NoPort == <<108, 111, 99, 97, 108, 104, 111, 115, 116>> \* localhost
Addr_BareV6 == <<58, 58, 49>>                     \* ::1
Host_Example == <<101, 120, 97, 109, 112, 108, 101, 46, 99, 111, 109, 58, 52, 52, 51>>  \* example.com:443
URI_Root == <<47>>                                \* /
URI_Quoted == <<47, 97, 34, 98, 63, 120, 61, 92>> \* /a, a double quote, b?x=, a backslash
Path_P == <<47, 112>>                             \* /p
Query_Q == <<113, 61, 49>>                        \* q=1
User_Bob == <<98, 111, 98>>                       \* bob
User_TwoLines == <<97, 10, 98>>                   \* a, a newline, b (user-info a%0Ab)
Ref_Site == <<104, 116, 116, 112, 58, 47, 47, 114, 47>>      \* http://r/
UA_Curl == <<99, 117, 114, 108, 47, 55, 46, 53, 49, 46, 48>> \* curl/7.51.0

\* url.Userinfo values: no user-info (url.User == nil), or a name.
NoUser == [set |-> FALSE, username |-> <<>>]

UserNamed(name) == [set |-> TRUE, username |-> name]

\* *http.Request, the fields the logger reads.
MakeRequest(method, proto, major, addr, host, uri, user, path, query, referer, agent) ==
    [Method |-> method, Proto |-> proto, ProtoMajor |-> major, RemoteAddr |-> addr,
     Host |-> host, RequestURI |-> uri,
     URL |-> [User |-> user, Path |-> path, RawQuery |-> query],
     Referer |-> referer, UserAgent |-> agent]

-----------------------------------------------------------------------------
(* net, net/url, time, strconv and fmt, as the formatter uses them.        *)

\* net.SplitHostPort(hostport): [host, err].  The port is not used.
SplitHostPort(hostport) ==
    LET n == Len(hostport)
        i == LastIndexOf(hostport, 58)
        fail == [host |-> <<>>, err |-> TRUE]
    IN  IF i = 0 THEN fail
        ELSE IF hostport[1] = 91 THEN
            LET end == IndexOf(hostport, 93)
            IN  IF end = 0 THEN fail
                ELSE IF end + 1 # i THEN fail
                ELSE IF IndexOf(Drop(hostport, 1), 91) # 0 THEN fail
                ELSE IF IndexOf(Drop(hostport, end), 93) # 0 THEN fail
                ELSE [host |-> SubSeq(hostport, 2, end - 1), err |-> FALSE]
        ELSE
            LET host == Take(hostport, i - 1)
            IN  IF IndexOf(host, 58) # 0 THEN fail
                ELSE IF IndexOf(hostport, 91) # 0 THEN fail
                ELSE IF IndexOf(hostport, 93) # 0 THEN fail
                ELSE [host |-> host, err |-> FALSE]

\* (*url.URL).RequestURI() of a URL with no opaque part: the path, "/" when
\* it is empty, then "?" and the query when there is one.
URLRequestURI(url) ==
    (IF url.Path = <<>> THEN <<47>> ELSE url.Path)
        \o (IF url.RawQuery # <<>> THEN <<63>> \o url.RawQuery ELSE <<>>)

\* strconv.Itoa(n).
RECURSIVE Digits(_)
Digits(n) == IF n < 10 THEN <<48 + n>> ELSE Digits(n \div 10) \o <<48 + (n % 10)>>

Itoa(n) == IF n < 0 THEN <<45>> \o Digits(0 - n) ELSE Digits(n)

\* n in 0..99 on two digits.
Pad2(n) == <<48 + (n \div 10), 48 + (n % 10)>>

\* A time.Time is the nanoseconds since 2017-01-02T20:07:27+01:00.
\* ts.Format("02/Jan/2006:15:04:05 -0700"), within January 2017.
FormatTime(ts) ==
    LET sec == (20 * 3600 + 7 * 60 + 27) + (ts \div 1000000000)
        day == 2 + (sec \div 86400)
        sod == sec % 86400
    IN  Pad2(day) \o S_MonthYear \o Pad2(sod \div 3600) \o <<58>>
            \o Pad2((sod % 3600) \div 60) \o <<58>> \o Pad2(sod % 60) \o S_Zone

\* prettyDuration(dur), dur in nanoseconds: fmt.Sprintf("%.3fms", ns / 1e6),
\* the milliseconds rounded to three fractional digits (the durations of
\* the model lie on no rounding tie).
prettyDuration(dur) ==
    LET us == (dur + 500) \div 1000
    IN  Itoa(us \div 1000) \o <<46>> \o <<48 + ((us \div 100) % 10)>> \o Pad2(us % 100)
            \o <<109, 115>>

-----------------------------------------------------------------------------
(* buildCommonLogLine, writeCommonLog, writeCombinedLog.                   *)

\* Lines 134-140.
Username(req) ==
    IF req.URL.User.set /\ req.URL.User.username # <<>>
    THEN req.URL.User.username
    ELSE <<45>>

\* Lines 142-146.
RemoteHost(req) ==
    LET hp == SplitHostPort(req.RemoteAddr)
    IN  IF hp.err THEN req.RemoteAddr ELSE hp.host

\* Faulty variant: the CONNECT test comes after the empty-URI fallback.
RequestTarget_ConnectLast(req) ==
    LET uri == IF req.RequestURI = <<>> THEN URLRequestURI(req.URL) ELSE req.RequestURI
    IN  IF req.ProtoMajor = 2 /\ req.Method = S_CONNECT THEN req.Host ELSE uri

\* Lines 148-158: the local uri when the line is assembled.
RequestTarget(req) ==
    LET uri0 == req.RequestURI
        uri1 == IF req.ProtoMajor = 2 /\ req.Method = S_CONNECT THEN req.Host ELSE uri0
    IN  IF uri1 = <<>> THEN URLRequestURI(req.URL) ELSE uri1

\* Lines 160-178.
buildCommonLogLine(req, ts, status, size, delay) ==
    RemoteHost(req) \o <<SP, 45, SP>> \o Username(req) \o <<SP, 91>>
        \o FormatTime(ts) \o <<93, SP, QUOTE>>
        \o req.Method \o <<SP>>
        \o appendQuoted(<<>>, RequestTarget(req)) \o <<SP>>
        \o req.Proto \o <<QUOTE, SP>>
        \o Itoa(status) \o <<SP>> \o Itoa(size) \o <<SP>> \o prettyDuration(delay)

\* writeCommonLog: the bytes handed to w.Write, whose result is discarded.
writeCommonLog(req, ts, status, size, delay) ==
    buildCommonLogLine(req, ts, status, size, delay) \o <<NL>>

\* Faulty variant: empty referrer and user-agent fields are left out.
writeCombinedLog_OmitEmpty(req, ts, status, size, delay) ==
    buildCommonLogLine(req, ts, status, size, delay)
        \o (IF req.Referer = <<>> THEN <<>>
            ELSE <<SP, QUOTE>> \o appendQuoted(<<>>, req.Referer) \o <<QUOTE>>)
        \o (IF req.UserAgent = <<>> THEN <<>>
            ELSE <<SP, QUOTE>> \o appendQuoted(<<>>, req.UserAgent) \o <<QUOTE>>)
        \o <<NL>>

\* writeCombinedLog: the bytes handed to w.Write, whose result is discarded.
writeCombinedLog(req, ts, status, size, delay) ==
    buildCommonLogLine(req, ts, status, size, delay)
        \o <<SP, QUOTE>> \o appendQuoted(<<>>, req.Referer)
        \o <<QUOTE, SP, QUOTE>> \o appendQuoted(<<>>, req.UserAgent)
        \o <<QUOTE, NL>>

-----------------------------------------------------------------------------
(* CommonLogger and CombinedLogger: the per-request function fn.           *)

\* The formatter at rest.
LineOff ==
    /\ lreq = MakeRequest(<<>>, <<>>, 0, <<>>, <<>>, <<>>, NoUser, <<>>, <<>>, <<>>, <<>>)
    /\ largs = [ts |-> 0, status |-> 0, size |-> 0, delay |-> 0]
    /\ luri = <<>>
    /\ lcommon = <<>>
    /\ lcombined = <<>>

\* appendQuoted at rest.
QuoteOff ==
    /\ qin = <<>>
    /\ qpos = 0
    /\ qbuf = <<>>
    /\ qunits = <<>>
    /\ qpc = "off"

Procs == 1..NumReq

\* The clock advances by 700 ms at a time.
TickNs == 700 * 1000000

NoRequest == MakeRequest(<<>>, <<>>, 0, <<>>, <<>>, <<>>, NoUser, <<>>, <<>>, <<>>, <<>>)

\* middleware.NewWrapResponseWriter(w): nothing written yet.
NewWrapResponseWriter == [code |-> 0, bytes |-> 0, wroteHeader |-> FALSE]

NoObs == [code |-> 0, bytes |-> 0, at |-> 0]

\* The requests sent through the wrappers.
ReqPlain ==
    MakeRequest(S_GET, S_HTTP11, 1, Addr_V6, <<>>, URI_Root, NoUser, URI_Root, <<>>,
                <<>>, UA_Curl)

ReqConnect ==
    MakeRequest(S_CONNECT, S_HTTP20, 2, Addr_V4, Host_Example, URI_Quoted,
                UserNamed(User_Bob), Path_P, Query_Q, Ref_Site, <<>>)

WrapInit ==
    /\ pc = [p \in Procs |-> "idle"]
    /\ reqs = [p \in Procs |-> NoRequest]
    /\ variant = [p \in Procs |-> "none"]
    /\ t1 = [p \in Procs |-> 0]
    /\ t2 = [p \in Procs |-> 0]
    /\ w2 = [p \in Procs |-> NewWrapResponseWriter]
    /\ obs = [p \in Procs |-> NoObs]
    /\ ctxDone = [p \in Procs |-> FALSE]
    /\ bufs = [p \in Procs |-> <<>>]
    /\ clock = 0
    /\ started = <<>>
    /\ sinkCalls = <<>>
    /\ sinkData = <<>>

\* Lines 33-35 and 48-50: t1 := time.Now(), w2 wraps w, next.ServeHTTP(w2, r)
\* is called.
Enter(p, r, f) ==
    /\ pc[p] = "idle"
    /\ pc' = [pc EXCEPT ![p] = "serving"]
    /\ reqs' = [reqs EXCEPT ![p] = r]
    /\ variant' = [variant EXCEPT ![p] = f]
    /\ t1' = [t1 EXCEPT ![p] = clock]
    /\ w2' = [w2 EXCEPT ![p] = NewWrapResponseWriter]
    /\ started' = Append(started, [by |-> p, at |-> clock])
    /\ UNCHANGED <<t2, obs, ctxDone, bufs, clock, sinkCalls, sinkData, qvars, lvars>>

\* The downstream handler calls w2.WriteHeader(code).
HandlerWriteHeader(p, code) ==
    /\ pc[p] = "serving"
    /\ ~w2[p].wroteHeader
    /\ w2' = [w2 EXCEPT ![p] = [code |-> code, bytes |-> @.bytes, wroteHeader |-> TRUE]]
    /\ UNCHANGED <<pc, reqs, variant, t1, t2, obs, ctxDone, bufs, clock, started,
                   sinkCalls, sinkData, qvars, lvars>>

\* The downstream handler calls w2.Write with n bytes: an implicit
\* WriteHeader(200) when no header was written.
HandlerWrite(p, n) ==
    /\ pc[p] = "serving"
    /\ w2[p].bytes + n <= MaxBody
    /\ w2' = [w2 EXCEPT ![p] = [code |-> IF @.wroteHeader THEN @.code ELSE 200,
                                bytes |-> @.bytes + n,
                                wroteHeader |-> TRUE]]
    /\ UNCHANGED <<pc, reqs, variant, t1, t2, obs, ctxDone, bufs, clock, started,
                   sinkCalls, sinkData, qvars, lvars>>

\* The request's context is cancelled while the handler runs.
CancelContext(p) ==
    /\ pc[p] = "serving"
    /\ ~ctxDone[p]
    /\ ctxDone' = [ctxDone EXCEPT ![p] = TRUE]
    /\ UNCHANGED <<pc, reqs, variant, t1, t2, w2, obs, bufs, clock, started,
                   sinkCalls, sinkData, qvars, lvars>>

\* next.ServeHTTP(w2, r) returns.
HandlerReturn(p) ==
    /\ pc[p] = "serving"
    /\ pc' = [pc EXCEPT ![p] = "returned"]
    /\ obs' = [obs EXCEPT ![p] = [code |-> w2[p].code, bytes |-> w2[p].bytes, at |-> clock]]
    /\ UNCHANGED <<reqs, variant, t1, t2, w2, ctxDone, bufs, clock, started,
                   sinkCalls, sinkData, qvars, lvars>>

\* next.ServeHTTP(w2, r) panics: fn defers nothing and recovers nothing, the
\* panic unwinds through it.
HandlerPanic(p) ==
    /\ pc[p] = "serving"
    /\ pc' = [pc EXCEPT ![p] = "panicked"]
    /\ UNCHANGED <<reqs, variant, t1, t2, w2, obs, ctxDone, bufs, clock, started,
                   sinkCalls, sinkData, qvars, lvars>>

\* Lines 36 and 51: t2 := time.Now().
SampleEnd(p) ==
    /\ pc[p] = "returned"
    /\ pc' = [pc EXCEPT ![p] = "sampled"]
    /\ t2' = [t2 EXCEPT ![p] = clock]
    /\ UNCHANGED <<reqs, variant, t1, w2, obs, ctxDone, bufs, clock, started,
                   sinkCalls, sinkData, qvars, lvars>>

\* Faulty variant: the line is built while the downstream handler still runs.
MayLog_BeforeReturn(p) == pc[p] \in {"serving", "sampled"}

\* Faulty variant: a cancelled request is not logged.
MayLog_UnlessCancelled(p) == pc[p] = "sampled" /\ ~ctxDone[p]

\* Lines 37 and 52 follow lines 36 and 51 unconditionally.
MayLog(p) == pc[p] = "sampled"

\* The arguments of lines 37 and 52: t1, w2.Status(), w2.BytesWritten(),
\* t2.Sub(t1).
LogTs(p) == t1[p]

LogStatus(p) == w2[p].code

LogSize(p) == w2[p].bytes

LogDelay(p) == t2[p] - t1[p]

\* The bytes the write function of p's wrapper hands to out.Write.
LogBytes(p) ==
    IF variant[p] = "combined"
    THEN writeCombinedLog(reqs[p], LogTs(p), LogStatus(p), LogSize(p), LogDelay(p))
    ELSE writeCommonLog(reqs[p], LogTs(p), LogStatus(p), LogSize(p), LogDelay(p))

\* Faulty variant: one buffer shared by all requests.
BufSlot_Shared(p) == 1

\* buf is a local of the write function: one per call.
BufSlot(p) == p

\* Control enters the write function.
BuildStep(p) ==
    /\ MayLog(p)
    /\ pc' = [pc EXCEPT ![p] = "built"]

\* Lines 185-186 and 194-199: buf is built.
BuildLine(p) ==
    /\ BuildStep(p)
    /\ bufs' = [bufs EXCEPT ![BufSlot(p)] = LogBytes(p)]
    /\ UNCHANGED <<reqs, variant, t1, t2, w2, obs, ctxDone, clock, started,
                   sinkCalls, sinkData, qvars, lvars>>

\* Faulty variant: a failed write is tried again.
WriteAttempts_Retry(res) == IF res = "ok" THEN <<res>> ELSE <<res, "ok">>

\* Lines 187 and 200: w.Write(buf) is called once and its results dropped.
WriteAttempts(res) == <<res>>

\* Faulty variant: a failed write makes the wrapper fail.
AfterWrite_Propagate(res) == IF res = "ok" THEN "done" ELSE "panicked"

\* The write function and fn return, whatever w.Write returned.
AfterWrite(res) == "done"

\* The bytes an atomic sink takes from one Write call that ends res.
Accepted(bytes, res) ==
    CASE res = "ok" -> bytes
      [] res = "short" -> Take(bytes, Len(bytes) \div 2)
      [] OTHER -> <<>>

\* Lines 187 and 200: out.Write(buf) returns res; fn returns.
SinkWrite(p, res) ==
    /\ pc[p] = "built"
    /\ pc' = [pc EXCEPT ![p] = AfterWrite(res)]
    /\ LET bytes == bufs[BufSlot(p)]
           calls == [k \in 1..Len(WriteAttempts(res)) |->
                        [by |-> p, bytes |-> bytes, res |-> WriteAttempts(res)[k]]]
       IN  /\ sinkCalls' = sinkCalls \o calls
           /\ sinkData' = sinkData
                \o Concat([k \in 1..Len(calls) |-> Accepted(bytes, calls[k].res)])
    /\ UNCHANGED <<reqs, variant, t1, t2, w2, obs, ctxDone, bufs, clock, started,
                   qvars, lvars>>

\* Time passes.
Tick ==
    /\ clock < MaxTicks * TickNs
    /\ clock' = clock + TickNs
    /\ UNCHANGED <<pc, reqs, variant, t1, t2, w2, obs, ctxDone, bufs, started,
                   sinkCalls, sinkData, qvars, lvars>>

\* Requests in flight at once, each wrapper with its own request.
ConcInputs == {<<ReqPlain, "common">>, <<ReqConnect, "combined">>}

Next ==
    \E p \in Procs :
        \/ \E in \in ConcInputs : Enter(p, in[1], in[2])
        \/ HandlerWrite(p, MaxBody)
        \/ HandlerReturn(p)
        \/ HandlerPanic(p)
        \/ SampleEnd(p)
        \/ BuildLine(p)
        \/ \E res \in {"ok", "err"} : SinkWrite(p, res)

Init == WrapInit /\ QuoteOff /\ LineOff

Spec == Init /\ [][Next]_vars

\* One request through a wrapper, with everything that can happen to it.
ServeInputs == {ReqPlain, ReqConnect} \X {"common", "combined"}

ServeNext ==
    \/ \E in \in ServeInputs : Enter(1, in[1], in[2])
    \/ HandlerWriteHeader(1, 404)
    \/ HandlerWrite(1, MaxBody)
    \/ CancelContext(1)
    \/ HandlerReturn(1)
    \/ HandlerPanic(1)
    \/ SampleEnd(1)
    \/ BuildLine(1)
    \/ \E res \in {"ok", "err", "short"} : SinkWrite(1, res)
    \/ Tick

\* The goroutine of a request keeps running once its handler has returned,
\* and out.Write returns.  The steps that change pc to "built" are the
\* BuildLine steps.
ServeFairness ==
    /\ WF_vars(SampleEnd(1))
    /\ WF_pc(BuildStep(1))
    /\ WF_vars(\E res \in {"ok", "err", "short"} : SinkWrite(1, res))

ServeSpec == Init /\ [][ServeNext]_vars /\ ServeFairness

-----------------------------------------------------------------------------
(* The escaping loop, one iteration per step.                              *)

\* The pieces the inputs are made of: plain, quoted, control and DEL bytes,
\* an invalid byte, a lead byte alone, a continuation byte alone, a
\* truncated three-byte sequence, and whole encodings of U+FFFD, U+1F600
\* and U+E0001.  C3 then A9 is U+00E9, E2 80 then A9 is U+2029.
Chunks ==
    { <<97>>, <<QUOTE>>, <<BSLASH>>, <<NL>>, <<1>>, <<127>>, <<255>>,
      <<195>>, <<169>>, <<226, 128>>, <<239, 191, 189>>,
      <<240, 159, 152, 128>>, <<243, 160, 128, 129>> }

RECURSIVE ChunkStrings(_)
ChunkStrings(n) ==
    IF n = 0 THEN {<<>>}
    ELSE LET shorter == ChunkStrings(n - 1)
         IN  shorter \cup {c \o t : c \in Chunks, t \in shorter}

QuoteInputs == ChunkStrings(MaxChunks)

QuoteInit ==
    /\ qin \in QuoteInputs
    /\ qpos = 0
    /\ qbuf = <<>>
    /\ qunits = <<>>
    /\ qpc = "loop"
    /\ LineOff
    /\ WrapInit

\* One pass through the loop body: len(s) > 0.
QuoteStep ==
    /\ qpc = "loop"
    /\ qpos < Len(qin)
    /\ LET it == appendQuotedIter(Drop(qin, qpos))
       IN  /\ qbuf' = qbuf \o it.out
           /\ qpos' = qpos + it.width
           /\ qunits' = Append(qunits, [from |-> qpos, width |-> it.width, out |-> it.out])
    /\ UNCHANGED <<qin, qpc, lvars, wvars>>

\* The loop condition fails: return buf.
QuoteReturn ==
    /\ qpc = "loop"
    /\ qpos >= Len(qin)
    /\ qpc' = "returned"
    /\ UNCHANGED <<qin, qpos, qbuf, qunits, lvars, wvars>>

QuoteNext == QuoteStep \/ QuoteReturn

QuoteSpec == QuoteInit /\ [][QuoteNext]_vars

-----------------------------------------------------------------------------
(* The formatter on its own: both write functions on one request.          *)

LineRequests ==
    { MakeRequest(m, pr[1], pr[2], a, h, u, usr, pq[1], pq[2], ref, ua) :
        m \in {S_GET, S_CONNECT},
        pr \in {<<S_HTTP11, 1>>, <<S_HTTP20, 2>>},
        a \in {Addr_V6, Addr_V4, Addr_NoPort, Addr_BareV6},
        h \in {<<>>, Host_Example},
        u \in {<<>>, URI_Root, URI_Quoted},
        usr \in {NoUser, UserNamed(<<>>), UserNamed(User_Bob), UserNamed(User_TwoLines)},
        pq \in {<<<<>>, <<>>>>, <<Path_P, Query_Q>>},
        ref \in {<<>>, Ref_Site},
        ua \in {<<>>, UA_Curl} }

LineArgs ==
    { [ts |-> 0, status |-> 200, size |-> 13, delay |-> 12000000],
      [ts |-> 1400000000, status |-> 404, size |-> 0, delay |-> 1234567] }

LineInit ==
    /\ lreq \in LineRequests
    /\ largs \in LineArgs
    /\ luri = <<>>
    /\ lcommon = <<>>
    /\ lcombined = <<>>
    /\ QuoteOff
    /\ WrapInit

\* writeCommonLog(w, req, ts, status, size, delay).
LineWriteCommon ==
    /\ lcommon = <<>>
    /\ luri' = RequestTarget(lreq)
    /\ lcommon' = writeCommonLog(lreq, largs.ts, largs.status, largs.size, largs.delay)
    /\ UNCHANGED <<lreq, largs, lcombined, qvars, wvars>>

\* writeCombinedLog(w, req, ts, status, size, delay).
LineWriteCombined ==
    /\ lcombined = <<>>
    /\ luri' = RequestTarget(lreq)
    /\ lcombined' = writeCombinedLog(lreq, largs.ts, largs.status, largs.size, largs.delay)
    /\ UNCHANGED <<lreq, largs, lcommon, qvars, wvars>>

LineNext == LineWriteCommon \/ LineWriteCombined

LineSpec == LineInit /\ [][LineNext]_vars

-----------------------------------------------------------------------------
(* Reading an escaped field back, as a consumer of the log line does.      *)

\* The bytes that follow each escaping backslash of o, scanning left to
\* right (a backslash that ends o escapes byte 0).
RECURSIVE Escapes(_)
Escapes(o) ==
    IF o = <<>> THEN <<>>
    ELSE IF o[1] = BSLASH
         THEN IF Len(o) >= 2 THEN <<o[2]>> \o Escapes(Drop(o, 2)) ELSE <<0>>
         ELSE Escapes(Tail(o))

\* No double quote or backslash of o stands unescaped.
RECURSIVE NoBareQuote(_)
NoBareQuote(o) ==
    \/ o = <<>>
    \/ o[1] = BSLASH /\ Len(o) >= 2 /\ NoBareQuote(Drop(o, 2))
    \/ o[1] \notin {QUOTE, BSLASH} /\ NoBareQuote(Tail(o))

HexVal(b) == IF b >= 97 THEN b - 87 ELSE b - 48

RECURSIVE HexNum(_)
HexNum(ds) ==
    IF ds = <<>> THEN 0
    ELSE HexNum(Take(ds, Len(ds) - 1)) * 16 + HexVal(ds[Len(ds)])

\* The bytes an escaped field stands for.
RECURSIVE Unescape(_)
Unescape(o) ==
    IF o = <<>> THEN <<>>
    ELSE IF o[1] # BSLASH THEN <<o[1]>> \o Unescape(Tail(o))
    ELSE IF Len(o) < 2 THEN <<>>
    ELSE LET c == o[2]
         IN  CASE c = 97  -> <<7>>  \o Unescape(Drop(o, 2))
               [] c = 98  -> <<8>>  \o Unescape(Drop(o, 2))
               [] c = 102 -> <<12>> \o Unescape(Drop(o, 2))
               [] c = 110 -> <<10>> \o Unescape(Drop(o, 2))
               [] c = 114 -> <<13>> \o Unescape(Drop(o, 2))
               [] c = 116 -> <<9>>  \o Unescape(Drop(o, 2))
               [] c = 118 -> <<11>> \o Unescape(Drop(o, 2))
               [] c = 120 -> <<HexNum(SubSeq(o, 3, 4))>> \o Unescape(Drop(o, 4))
               [] c = 117 -> EncodeRune(HexNum(SubSeq(o, 3, 6))) \o Unescape(Drop(o, 6))
               [] c = 85  -> EncodeRune(HexNum(SubSeq(o, 3, 10))) \o Unescape(Drop(o, 10))
               [] OTHER   -> <<c>> \o Unescape(Drop(o, 2))

\* The first w bytes of s read as the payload of a w-byte encoding.
LooseRune(s, w) ==
    CASE w = 1 -> s[1]
      [] w = 2 -> (s[1] - 192) * 64 + (s[2] - 128)
      [] w = 3 -> (s[1] - 224) * 4096 + (s[2] - 128) * 64 + (s[3] - 128)
      [] w = 4 -> (s[1] - 240) * 262144 + (s[2] - 128) * 4096
                  + (s[3] - 128) * 64 + (s[4] - 128)

\* s starts with the encoding of some character.
StartsValid(s) ==
    \E w \in 1..(IF Len(s) < 4 THEN Len(s) ELSE 4) :
        LET r == LooseRune(s, w)
        IN  r >= 0 /\ r <= MaxRune /\ EncodeRune(r) = Take(s, w)

UnitEnd(u) == u.from + u.width

-----------------------------------------------------------------------------
(* C8, as amended.  For an input of appendQuoted that holds a double       *)
(* quote or a backslash: each of them is written as one backslash and the  *)
(* character itself, no double quote or backslash of the output stands     *)
(* unescaped, and the escapes \" and \\ of the output are as many as the   *)
(* double quotes and backslashes of the input (the output's other          *)
(* backslash escapes stand for control, non-printable and malformed        *)
(* bytes).                                                                 *)
Thm_C8_QuotesBackslashed ==
    (qpc = "returned" /\ Count(qin, {QUOTE, BSLASH}) > 0) =>
        /\ \A k \in 1..Len(qunits) :
              qin[qunits[k].from + 1] \in {QUOTE, BSLASH} =>
                  qunits[k].out = <<BSLASH, qin[qunits[k].from + 1]>>
        /\ NoBareQuote(qbuf)
        /\ Count(Escapes(qbuf), {QUOTE, BSLASH}) = Count(qin, {QUOTE, BSLASH})

\* C8's case: an input with a double quote and a backslash, escaped.
Wit_C8_QuotesBackslashed ==
    /\ qpc = "returned"
    /\ Count(qin, {QUOTE}) > 0
    /\ Count(qin, {BSLASH}) > 0
    /\ Len(qbuf) >= 4

\* C8 as stated: all the backslash escapes of the output are as many as the
\* double quotes and backslashes of the input.
Cex_C8_EscapeCount ==
    (qpc = "returned" /\ Count(qin, {QUOTE, BSLASH}) > 0) =>
        /\ NoBareQuote(qbuf)
        /\ Len(Escapes(qbuf)) = Count(qin, {QUOTE, BSLASH})

(* C9.  appendQuoted drops no input: the iterations tile the input from    *)
(* left to right, each consuming at least one byte, so there are at most   *)
(* len(s) of them; a byte that starts no valid encoding is written as \xHH *)
(* and consumes exactly one byte; buf is the iterations' outputs in order, *)
(* and on return the whole input was consumed and can be read back from    *)
(* the output.                                                             *)
Thm_C9_NoInputDropped ==
    /\ qpos <= Len(qin)
    /\ Len(qunits) <= qpos
    /\ qpos = (IF qunits = <<>> THEN 0 ELSE UnitEnd(qunits[Len(qunits)]))
    /\ \A k \in 1..Len(qunits) :
          /\ qunits[k].width >= 1
          /\ qunits[k].from = (IF k = 1 THEN 0 ELSE UnitEnd(qunits[k - 1]))
          /\ ~StartsValid(Drop(qin, qunits[k].from)) =>
                /\ qunits[k].width = 1
                /\ qunits[k].out = HexByte(qin[qunits[k].from + 1])
    /\ qbuf = Concat([k \in 1..Len(qunits) |-> qunits[k].out])
    /\ qpc = "returned" => (qpos = Len(qin) /\ Unescape(qbuf) = qin)

\* C9's case: a malformed byte was escaped and the bytes after it were
\* decoded as a multi-byte character.
Wit_C9_NoInputDropped ==
    /\ qpc = "returned"
    /\ \E k \in 1..(Len(qunits) - 1) :
          /\ ~StartsValid(Drop(qin, qunits[k].from))
          /\ qunits[k + 1].width >= 2

-----------------------------------------------------------------------------
(* The request-line field of a written line, read back.                    *)

\* The index in o of the first double quote at or after i that no backslash
\* escapes (0: none).
RECURSIVE ClosingQuote(_, _)
ClosingQuote(o, i) ==
    IF i > Len(o) THEN 0
    ELSE IF o[i] = BSLASH THEN ClosingQuote(o, i + 2)
    ELSE IF o[i] = QUOTE THEN i
    ELSE ClosingQuote(o, i + 1)

\* The target a reader finds in the line written for req: the quoted
\* request-line field, less the method and the protocol, unescaped.
LoggedTarget(line, req) ==
    LET open == IndexOf(line, QUOTE)
        close == ClosingQuote(line, open + 1)
    IN  Unescape(SubSeq(line, open + Len(req.Method) + 2, close - Len(req.Proto) - 2))

WrittenLines == {lcommon, lcombined} \ {<<>>}

IsH2Connect(req) == req.ProtoMajor = 2 /\ req.Method = S_CONNECT

\* C3 as stated: the bytes of a write hold one newline, the last byte.
Cex_C3_OneLinePerWrite ==
    \A b \in WrittenLines : Count(b, {NL}) = 1 /\ b[Len(b)] = NL

(* C6, as amended.  The target of the line is: for CONNECT over protocol   *)
(* major version 2, the Host field when it is non-empty and the URI        *)
(* rebuilt from the parsed URL when Host is empty (RequestURI is not       *)
(* consulted); otherwise RequestURI when it is non-empty and the URI       *)
(* rebuilt from the parsed URL when it is empty.                           *)
Thm_C6_TargetSelection ==
    \A b \in WrittenLines :
        LET want == IF IsH2Connect(lreq)
                    THEN (IF lreq.Host # <<>> THEN lreq.Host ELSE URLRequestURI(lreq.URL))
                    ELSE (IF lreq.RequestURI # <<>> THEN lreq.RequestURI
                          ELSE URLRequestURI(lreq.URL))
        IN  luri = want /\ LoggedTarget(b, lreq) = want

\* C6's case: CONNECT over HTTP/2 with a Host, a RequestURI and a URL that
\* all differ; the line carries the Host.
Wit_C6_TargetSelection ==
    /\ lcombined # <<>>
    /\ IsH2Connect(lreq)
    /\ lreq.Host = Host_Example
    /\ lreq.RequestURI = URI_Quoted
    /\ lreq.URL.Path = Path_P
    /\ LoggedTarget(lcombined, lreq) = Host_Example

\* C6 as stated: for CONNECT over protocol major version 2 the target is
\* the Host field, also when Host is empty.
Cex_C6_HostAlways ==
    \A b \in WrittenLines :
        LoggedTarget(b, lreq) =
            (IF IsH2Connect(lreq) THEN lreq.Host
             ELSE IF lreq.RequestURI # <<>> THEN lreq.RequestURI
             ELSE URLRequestURI(lreq.URL))

(* C7.  For one request and the same timestamp, status, size and elapsed,  *)
(* the Combined bytes are the Common bytes less their newline, then space, *)
(* quote, escaped referrer, quote, space, quote, escaped user agent,       *)
(* quote, newline; with no referrer and no user agent the line ends in     *)
(* the two empty quoted fields.                                            *)
Thm_C7_CombinedExtendsCommon ==
    (lcommon # <<>> /\ lcombined # <<>>) =>
        /\ lcommon[Len(lcommon)] = NL
        /\ lcombined = Take(lcommon, Len(lcommon) - 1)
                \o <<SP, QUOTE>> \o appendQuoted(<<>>, lreq.Referer) \o <<QUOTE>>
                \o <<SP, QUOTE>> \o appendQuoted(<<>>, lreq.UserAgent) \o <<QUOTE>>
                \o <<NL>>
        /\ (lreq.Referer = <<>> /\ lreq.UserAgent = <<>>) =>
                Drop(lcombined, Len(lcombined) - 7) = <<SP, QUOTE, QUOTE, SP, QUOTE, QUOTE, NL>>

\* C7's case: both formats written for a request with no referrer and no
\* user agent.
Wit_C7_CombinedExtendsCommon ==
    /\ lcommon # <<>>
    /\ lcombined # <<>>
    /\ lreq.Referer = <<>>
    /\ lreq.UserAgent = <<>>

-----------------------------------------------------------------------------
(* The wrappers.                                                           *)

\* The Write calls made for request p, in order.
CallsBy(p) == SelectSeq(sinkCalls, LAMBDA c : c.by = p)

\* When request p entered its wrapper.
EnteredAt(p) == (CHOOSE k \in 1..Len(started) : started[k].by = p)

\* The line of request p, from what was observed of it: the time it entered,
\* the status and size its handler left, the time from entry to t2.
ExpectedLine(p) ==
    LET common == buildCommonLogLine(reqs[p], started[EnteredAt(p)].at, obs[p].code,
                                     obs[p].bytes, t2[p] - started[EnteredAt(p)].at)
    IN  IF variant[p] = "combined"
        THEN common \o <<SP, QUOTE>> \o appendQuoted(<<>>, reqs[p].Referer)
                \o <<QUOTE, SP, QUOTE>> \o appendQuoted(<<>>, reqs[p].UserAgent)
                \o <<QUOTE>>
        ELSE common

(* C1.  A request whose downstream handler returned and whose wrapper has  *)
(* finished has exactly one Write call on the sink, before that it has     *)
(* none, and the bytes of the call are its built line and one newline.     *)
Thm_C1_OneWritePerRequest ==
    \A p \in Procs :
        /\ Len(CallsBy(p)) = (IF pc[p] = "done" THEN 1 ELSE 0)
        /\ \A k \in 1..Len(CallsBy(p)) :
              CallsBy(p)[k].bytes = ExpectedLine(p) \o <<NL>>

\* C1's case: two requests finished, one of them with a failed write, each
\* with its one call.
Wit_C1_OneWritePerRequest ==
    /\ \A p \in {1, 2} : pc[p] = "done" /\ Len(CallsBy(p)) = 1
    /\ \E k \in 1..Len(sinkCalls) : sinkCalls[k].res # "ok"

Thm_C4_WriteFailureIgnored ==
    \A k \in 1..Len(sinkCalls) :
        sinkCalls[k].res # "ok" =>
            LET p == sinkCalls[k].by
            IN  /\ pc[p] = "done"
                /\ Len(CallsBy(p)) = 1
                /\ w2[p].code = obs[p].code
                /\ w2[p].bytes = obs[p].bytes

\* C4's case: the handler wrote a body, the Write of the line failed.
Wit_C4_WriteFailureIgnored ==
    /\ sinkCalls # <<>>
    /\ sinkCalls[1].res = "err"
    /\ w2[1].bytes = MaxBody
    /\ pc[1] = "done"

(* C5.  No line is built or written before the downstream handler has      *)
(* returned; t1 is sampled before the handler returns and t2 after, so     *)
(* t2 - t1 is never negative; the line carries the entry time, the status  *)
(* and size the handler left, and t2 - t1; what is written is that line.   *)
Thm_C5_OrderOfSteps ==
    \A p \in Procs :
        /\ pc[p] \in {"idle", "serving", "panicked", "returned", "sampled"} =>
              bufs[p] = <<>> /\ CallsBy(p) = <<>>
        /\ pc[p] \in {"sampled", "built", "done"} =>
              /\ t1[p] = started[EnteredAt(p)].at
              /\ t1[p] <= obs[p].at
              /\ obs[p].at <= t2[p]
              /\ LogDelay(p) >= 0
        /\ pc[p] \in {"built", "done"} => bufs[p] = ExpectedLine(p) \o <<NL>>
        /\ pc[p] = "done" => CallsBy(p)[1].bytes = bufs[p]

\* C5's case: the handler set the status after entry, time passed both
\* while it ran and after it returned, and the line was written.
Wit_C5_OrderOfSteps ==
    /\ pc[1] = "done"
    /\ obs[1].code = 404
    /\ t1[1] < obs[1].at
    /\ obs[1].at < t2[1]
    /\ FormatTime(t1[1]) # FormatTime(t2[1])

(* C10.  When every request in flight has ended: the sink holds what it    *)
(* accepted of each Write call, whole and in the order of the calls; each  *)
(* finished request has one call, with its own line; and when no Write     *)
(* failed the sink holds one newline-ended line per finished request.      *)
Thm_C10_SharedSink ==
    (\A p \in Procs : pc[p] \in {"done", "panicked"}) =>
        LET done == {p \in Procs : pc[p] = "done"}
        IN  /\ sinkData = Concat([k \in 1..Len(sinkCalls) |->
                                    Accepted(sinkCalls[k].bytes, sinkCalls[k].res)])
            /\ Len(sinkCalls) = Cardinality(done)
            /\ \A p \in done :
                  \E k \in 1..Len(sinkCalls) :
                      /\ sinkCalls[k].by = p
                      /\ sinkCalls[k].bytes = ExpectedLine(p) \o <<NL>>
            /\ (\A k \in 1..Len(sinkCalls) : sinkCalls[k].res = "ok") =>
                  /\ Count(sinkData, {NL}) = Cardinality(done)
                  /\ sinkData = Concat([k \in 1..Len(sinkCalls) |->
                                          ExpectedLine(sinkCalls[k].by) \o <<NL>>])

\* C10's case: two requests, both finished and written whole, the one that
\* entered second written first.
Wit_C10_SharedSink ==
    /\ \A p \in Procs : pc[p] = "done"
    /\ \A k \in 1..Len(sinkCalls) : sinkCalls[k].res = "ok"
    /\ started[1].by = 1
    /\ sinkCalls[1].by = 2
    /\ reqs[1] # reqs[2]

=============================================================================
